---------------------------- MODULE Spec2Model ----------------------------
(***************************************************************************)
(* Model of favicon-generator.py: one run of main() as a state machine     *)
(* (specification Spec), and the geometry helpers contain / center /       *)
(* save_apple_touch / save_maskable as operators applied to bounded inputs *)
(* (specification GeomSpec).                                               *)
(*                                                                         *)
(* Strings that the program parses (--favicon-sizes) are sequences of      *)
(* one-character strings; file names are TLA+ strings.  Pixel data is not  *)
(* modelled: an image is its (width, height).                              *)
(***************************************************************************)
EXTENDS Integers, Sequences, FiniteSets, TLC

VARIABLES
    args,           \* the parsed command line (argparse namespace)
    cairosvg,       \* TRUE iff "import cairosvg" succeeds in this environment
    input,          \* how args.favicon_sizes was put together, field by field
    pc,             \* position of main()
    status,         \* "running", "exit0", "SystemExit" or "ValueError"
    dirs,           \* directories created by ensure_outdir
    written,        \* file names written so far, in write order
    is_svg_input,   \* second result of load_source_image
    favicon_sizes,  \* result of parse_sizes (<<>> before it has run)
    idx,            \* position of the "for s in favicon_sizes" loop
    ico,            \* what save_ico stored in favicon.ico
    manifest,       \* the "icons" list write_manifest stored in site.webmanifest
    stdout,         \* the lines printed by main
    geom            \* state of the geometry helpers (GeomSpec)

mainvars == <<args, cairosvg, input, pc, status, dirs, written, is_svg_input,
              favicon_sizes, idx, ico, manifest, stdout>>
vars == <<args, cairosvg, input, pc, status, dirs, written, is_svg_input,
          favicon_sizes, idx, ico, manifest, stdout, geom>>

\* ------------------------------------------------------------------ bounds
MaxFields == 3      \* comma-separated fields in --favicon-sizes
MaxDim == 12        \* source bitmap width and height range over 1..MaxDim
MaxBox == 8         \* target box width and height range over 1..MaxBox

\* ----------------------------------------------------------- text helpers
Whitespace == {" ", "\t"}

Digit == {"0", "1", "2", "3", "4", "5", "6", "7", "8", "9"}

DigitVal(c) ==
    CASE c = "0" -> 0 [] c = "1" -> 1 [] c = "2" -> 2 [] c = "3" -> 3
      [] c = "4" -> 4 [] c = "5" -> 5 [] c = "6" -> 6 [] c = "7" -> 7
      [] c = "8" -> 8 [] c = "9" -> 9

RECURSIVE lstrip(_)
lstrip(s) == IF s # <<>> /\ Head(s) \in Whitespace THEN lstrip(Tail(s)) ELSE s

RECURSIVE rstrip(_)
rstrip(s) ==
    IF s # <<>> /\ s[Len(s)] \in Whitespace
    THEN rstrip(SubSeq(s, 1, Len(s) - 1))
    ELSE s

\* str.strip()
strip(s) == rstrip(lstrip(s))

\* str.split(sep) for a one-character separator
RECURSIVE split(_, _)
split(s, sep) ==
    IF \A i \in 1..Len(s) : s[i] # sep
    THEN <<s>>
    ELSE LET i == CHOOSE k \in 1..Len(s) :
                      s[k] = sep /\ \A j \in 1..(k - 1) : s[j] # sep
         IN  <<SubSeq(s, 1, i - 1)>> \o split(SubSeq(s, i + 1, Len(s)), sep)

\* sep.join(fields)
RECURSIVE join(_, _)
join(fields, sep) ==
    IF fields = <<>> THEN <<>>
    ELSE IF Len(fields) = 1 THEN fields[1]
    ELSE fields[1] \o <<sep>> \o join(Tail(fields), sep)

\* The part of an integer literal after the optional sign.
Unsigned(s) ==
    LET t == strip(s)
    IN  IF t # <<>> /\ t[1] \in {"+", "-"} THEN Tail(t) ELSE t

\* TRUE iff int(s) returns; otherwise int(s) raises ValueError.  Python
\* accepts surrounding whitespace, one sign, decimal digits and single
\* underscores between digits.
IsIntLiteral(s) ==
    LET b == Unsigned(s)
    IN  /\ b # <<>>
        /\ \A i \in 1..Len(b) :
              \/ b[i] \in Digit
              \/ /\ b[i] = "_"
                 /\ 1 < i /\ i < Len(b)
                 /\ b[i - 1] \in Digit /\ b[i + 1] \in Digit

RECURSIVE DigitsValue(_, _)
DigitsValue(b, acc) ==
    IF b = <<>> THEN acc
    ELSE IF Head(b) = "_" THEN DigitsValue(Tail(b), acc)
    ELSE DigitsValue(Tail(b), 10 * acc + DigitVal(Head(b)))

\* int(s) for a string with IsIntLiteral(s)
int(s) ==
    LET t == strip(s)
        v == DigitsValue(Unsigned(s), 0)
    IN  IF t[1] = "-" THEN 0 - v ELSE v

\* max(...) and min(...) of a non-empty set of integers
Max(S) == CHOOSE m \in S : \A x \in S : x <= m

Min(S) == CHOOSE m \in S : \A x \in S : m <= x

\* sorted(...) of a set of integers: the ascending list of its elements
RECURSIVE sorted(_)
sorted(S) == IF S = {} THEN <<>> ELSE <<Min(S)>> \o sorted(S \ {Min(S)})

Range(q) == {q[i] : i \in 1..Len(q)}

None == [none |-> TRUE]

\* ----------------------------------------------------------------- parsing
\* parse_sizes without the set and without sorted(): the integers in the
\* order typed, duplicates kept.
parse_sizes_as_typed(csv) ==
    LET fields == split(csv, ",")
        kept   == SelectSeq(fields, LAMBDA f : strip(f) # <<>>)
    IN  IF \E i \in 1..Len(kept) : ~IsIntLiteral(strip(kept[i]))
        THEN [raised |-> TRUE, sizes |-> <<>>]
        ELSE LET sizes == [i \in 1..Len(kept) |-> int(strip(kept[i]))]
             IN  IF sizes = <<>>
                 THEN [raised |-> TRUE, sizes |-> <<>>]
                 ELSE [raised |-> FALSE, sizes |-> sizes]

\* parse_sizes(csv): [raised |-> TRUE] stands for SystemExit, otherwise the
\* returned list is in "sizes".
parse_sizes(csv) ==
    LET fields == split(csv, ",")
        kept   == SelectSeq(fields, LAMBDA f : strip(f) # <<>>)
    IN  IF \E i \in 1..Len(kept) : ~IsIntLiteral(strip(kept[i]))
        THEN [raised |-> TRUE, sizes |-> <<>>]
        ELSE LET sizes == sorted({int(strip(kept[i])) : i \in 1..Len(kept)})
             IN  IF sizes = <<>>
                 THEN [raised |-> TRUE, sizes |-> <<>>]
                 ELSE [raised |-> FALSE, sizes |-> sizes]


\* ---------------------------------------------------------- command line
\* One comma-separated field of --favicon-sizes: the characters typed, and
\* what the field stands for (an integer "val", a blank, or not a number).
Field(text, kind, val) == [text |-> text, kind |-> kind, val |-> val]

FieldChoices ==
    { Field(<<"1", "6">>, "int", 16),
      Field(<<" ", "2", "4", " ">>, "int", 24),
      Field(<<"2", "5", "6">>, "int", 256),
      Field(<<"0">>, "int", 0),
      Field(<<"-", "3">>, "int", -3),
      Field(<<>>, "blank", 0),
      Field(<<"x">>, "bad", 0) }

FieldLists == UNION {[1..n -> FieldChoices] : n \in 1..MaxFields}

Sources == {"raster", "svg"}

\* argparse namespace: the options main() branches on.  The colour, name,
\* prefix and --flask options only change attribute text inside the
\* emitted lines, --autotrim and --maskable-padding only pixel data; they
\* are left out of the run (the padding is an input of GeomSpec).
ArgsOf(source, fields, f) ==
    [source |-> source,
     favicon_sizes |-> join([i \in 1..Len(fields) |-> fields[i].text], ","),
     no_ico |-> f[1], no_apple_touch |-> f[2], no_maskable |-> f[3],
     no_manifest |-> f[4], pinned_svg |-> f[5], make_browserconfig |-> f[6]]

\* -------------------------------------------------------------- file names
\* A file is named by its path below the manifest directory in the default
\* layout (--icons-dir static/icons, --manifest-dir static), which is also
\* the path main() hands to fmt() for the file's HTML reference.
IconsDir == "static/icons"

ManifestDir == "static"

FaviconSvg == "icons/favicon.svg"

FaviconIco == "icons/favicon.ico"

AppleTouch == "icons/apple-touch-icon.png"

Icon192 == "icons/icon-192x192.png"

Icon256 == "icons/icon-256x256.png"

Icon512 == "icons/icon-512x512.png"

IconMaskable == "icons/icon-maskable-512x512.png"

PinnedTab == "icons/safari-pinned-tab.svg"

MsTile == "icons/mstile-150x150.png"

BrowserConfig == "browserconfig.xml"

WebManifest == "site.webmanifest"

\* f"favicon-{s}x{s}.png"
FaviconPng(s) ==
    "icons/favicon-" \o ToString(s) \o "x" \o ToString(s) \o ".png"

\* ------------------------------------------------------------------- Init
Init ==
    /\ \E source \in Sources, fields \in FieldLists, f \in [1..6 -> BOOLEAN] :
          /\ args = ArgsOf(source, fields, f)
          /\ input = fields
    /\ cairosvg \in BOOLEAN
    /\ pc = "ensure_outdir"
    /\ status = "running"
    /\ dirs = {}
    /\ written = <<>>
    /\ is_svg_input = FALSE
    /\ favicon_sizes = <<>>
    /\ idx = 1
    /\ ico = None
    /\ manifest = None
    /\ stdout = <<>>
    /\ geom = None


\* ---------------------------------------------------------------- helpers
\* load_source_image: SystemExit when the source is SVG and cairosvg cannot
\* be imported, otherwise the flag is_svg_input.
load_source_image(src, has_cairosvg) ==
    IF src = "svg"
    THEN IF has_cairosvg
         THEN [raised |-> FALSE, is_svg |-> TRUE]
         ELSE [raised |-> TRUE, is_svg |-> FALSE]
    ELSE [raised |-> FALSE, is_svg |-> FALSE]

\* save_png hands "size" to Image.resize, which raises ValueError
\* ("height and width must be > 0") unless both are at least 1.
save_png_ok(size) == size[1] >= 1 /\ size[2] >= 1

\* ico_sizes with a fallback list that has none of 16, 32, 48
ico_sizes_of_fallback64(sizes) ==
    LET picked == SelectSeq(sizes, LAMBDA s : s \in {16, 24, 32, 48, 64})
    IN  IF picked = <<>> THEN <<64>> ELSE picked

\* The ICO sizes main() derives from the favicon sizes.
ico_sizes_of(sizes) ==
    LET picked == SelectSeq(sizes, LAMBDA s : s \in {16, 24, 32, 48, 64})
    IN  IF picked = <<>> THEN <<16, 32, 48>> ELSE picked

\* save_ico with the base image fit to the smallest size
save_ico_min(sizes) ==
    LET m == Min(Range(sizes))
        order == sorted(Range(sizes))
    IN  [box |-> <<m, m>>,
         sizes |-> [i \in 1..Len(order) |-> <<order[i], order[i]>>]]

\* save_ico: the box the base image is contain-fit into, and the "sizes"
\* handed to the ICO encoder.
save_ico(sizes) ==
    LET m == Max(Range(sizes))
        order == sorted(Range(sizes))
    IN  [box |-> <<m, m>>,
         sizes |-> [i \in 1..Len(order) |-> <<order[i], order[i]>>]]

\* write_manifest: the "icons" list of site.webmanifest (purpose "" for an
\* entry without a "purpose" key)
ManifestIcon(src, sizes, purpose) ==
    [src |-> src, sizes |-> sizes, purpose |-> purpose]

\* write_manifest ignoring include_maskable
manifest_icons_all(include_maskable) ==
    << ManifestIcon(Icon512, "512x512", ""),
       ManifestIcon(Icon256, "256x256", ""),
       ManifestIcon(Icon192, "192x192", ""),
       ManifestIcon(IconMaskable, "512x512", "maskable") >>

manifest_icons(include_maskable) ==
    LET icons == << ManifestIcon(Icon512, "512x512", ""),
                    ManifestIcon(Icon256, "256x256", ""),
                    ManifestIcon(Icon192, "192x192", "") >>
    IN  IF include_maskable
        THEN Append(icons, ManifestIcon(IconMaskable, "512x512", "maskable"))
        ELSE icons

\* One line of the HTML fragment: the rel (or meta name) and the file it
\* refers to ("" for the lines that refer to no file).
Line(rel, href) == [rel |-> rel, href |-> href]

Optional(cond, lines) == IF cond THEN lines ELSE <<>>

\* The list "lines" with the favicon.ico link emitted under the manifest's
\* condition instead of its own
HtmlLines_IcoWithManifest(a, is_svg, sizes) ==
    <<Line("begin", "")>>
    \o Optional(is_svg, <<Line("icon svg", FaviconSvg)>>)
    \o [i \in 1..Len(sizes) |-> Line("icon png", FaviconPng(sizes[i]))]
    \o Optional(~a.no_apple_touch, <<Line("apple-touch-icon", AppleTouch)>>)
    \o Optional(a.pinned_svg, <<Line("mask-icon", PinnedTab)>>)
    \o Optional(~a.no_manifest, <<Line("manifest", WebManifest)>>)
    \o <<Line("theme-color", ""), Line("background-color", "")>>
    \o Optional(a.make_browserconfig,
                <<Line("msapplication-TileColor", ""),
                  Line("msapplication-config", BrowserConfig)>>)
    \o Optional(~a.no_manifest, <<Line("alternate icon", FaviconIco)>>)
    \o <<Line("end", "")>>

\* The list "lines" built at the end of main()
HtmlLines(a, is_svg, sizes) ==
    <<Line("begin", "")>>
    \o Optional(is_svg, <<Line("icon svg", FaviconSvg)>>)
    \o [i \in 1..Len(sizes) |-> Line("icon png", FaviconPng(sizes[i]))]
    \o Optional(~a.no_apple_touch, <<Line("apple-touch-icon", AppleTouch)>>)
    \o Optional(a.pinned_svg, <<Line("mask-icon", PinnedTab)>>)
    \o Optional(~a.no_manifest, <<Line("manifest", WebManifest)>>)
    \o <<Line("theme-color", ""), Line("background-color", "")>>
    \o Optional(a.make_browserconfig,
                <<Line("msapplication-TileColor", ""),
                  Line("msapplication-config", BrowserConfig)>>)
    \o Optional(~a.no_ico, <<Line("alternate icon", FaviconIco)>>)
    \o <<Line("end", "")>>

\* ---------------------------------------------------------------- main()
Goto(l) == pc' = l

Write(files) == written' = written \o files

Exit(how) == status' = how /\ pc' = "exit"

EnsureOutdir ==
    /\ pc = "ensure_outdir"
    /\ dirs' = dirs \cup {IconsDir, ManifestDir}
    /\ Goto("load")
    /\ UNCHANGED <<args, cairosvg, input, status, written, is_svg_input,
                   favicon_sizes, idx, ico, manifest, stdout, geom>>

LoadSourceImage ==
    /\ pc = "load"
    /\ LET r == load_source_image(args.source, cairosvg)
       IN  IF r.raised
           THEN Exit("SystemExit") /\ UNCHANGED is_svg_input
           ELSE is_svg_input' = r.is_svg /\ Goto("copy_svg") /\ UNCHANGED status
    /\ UNCHANGED <<args, cairosvg, input, dirs, written, favicon_sizes, idx,
                   ico, manifest, stdout, geom>>

CopySvg ==
    /\ pc = "copy_svg"
    /\ Write(Optional(is_svg_input, <<FaviconSvg>>))
    /\ Goto("parse_sizes")
    /\ UNCHANGED <<args, cairosvg, input, status, dirs, is_svg_input,
                   favicon_sizes, idx, ico, manifest, stdout, geom>>

ParseSizes ==
    /\ pc = "parse_sizes"
    /\ LET r == parse_sizes(args.favicon_sizes)
       IN  IF r.raised
           THEN Exit("SystemExit") /\ UNCHANGED favicon_sizes
           ELSE favicon_sizes' = r.sizes /\ Goto("favicons") /\ UNCHANGED status
    /\ UNCHANGED <<args, cairosvg, input, dirs, written, is_svg_input, idx,
                   ico, manifest, stdout, geom>>

\* One iteration of "for s in favicon_sizes: save_png(...)"
SaveFaviconPng ==
    /\ pc = "favicons"
    /\ LET s == favicon_sizes[idx]
       IN  IF save_png_ok(<<s, s>>)
           THEN /\ Write(<<FaviconPng(s)>>)
                /\ idx' = idx + 1
                /\ Goto(IF idx = Len(favicon_sizes) THEN "apple_touch" ELSE "favicons")
                /\ UNCHANGED status
           ELSE Exit("ValueError") /\ UNCHANGED <<written, idx>>
    /\ UNCHANGED <<args, cairosvg, input, dirs, is_svg_input, favicon_sizes,
                   ico, manifest, stdout, geom>>

SaveAppleTouch ==
    /\ pc = "apple_touch"
    /\ Write(Optional(~args.no_apple_touch, <<AppleTouch>>))
    /\ Goto("pwa")
    /\ UNCHANGED <<args, cairosvg, input, status, dirs, is_svg_input,
                   favicon_sizes, idx, ico, manifest, stdout, geom>>

SavePwaIcons ==
    /\ pc = "pwa"
    /\ Write(<<Icon192, Icon256, Icon512>>)
    /\ Goto("maskable")
    /\ UNCHANGED <<args, cairosvg, input, status, dirs, is_svg_input,
                   favicon_sizes, idx, ico, manifest, stdout, geom>>

\* SaveMaskable without the --no-maskable test
SaveMaskable_Unconditional ==
    /\ pc = "maskable"
    /\ Write(<<IconMaskable>>)
    /\ Goto("ico")
    /\ UNCHANGED <<args, cairosvg, input, status, dirs, is_svg_input,
                   favicon_sizes, idx, ico, manifest, stdout, geom>>

SaveMaskable ==
    /\ pc = "maskable"
    /\ Write(Optional(~args.no_maskable, <<IconMaskable>>))
    /\ Goto("ico")
    /\ UNCHANGED <<args, cairosvg, input, status, dirs, is_svg_input,
                   favicon_sizes, idx, ico, manifest, stdout, geom>>

SaveIco ==
    /\ pc = "ico"
    /\ IF ~args.no_ico
       THEN /\ ico' = save_ico(ico_sizes_of(favicon_sizes))
            /\ Write(<<FaviconIco>>)
       ELSE UNCHANGED <<ico, written>>
    /\ Goto("pinned")
    /\ UNCHANGED <<args, cairosvg, input, status, dirs, is_svg_input,
                   favicon_sizes, idx, manifest, stdout, geom>>

CopyPinnedSvg ==
    /\ pc = "pinned"
    /\ Write(Optional(args.pinned_svg, <<PinnedTab>>))
    /\ Goto("browserconfig")
    /\ UNCHANGED <<args, cairosvg, input, status, dirs, is_svg_input,
                   favicon_sizes, idx, ico, manifest, stdout, geom>>

MakeBrowserconfig ==
    /\ pc = "browserconfig"
    /\ Write(Optional(args.make_browserconfig, <<MsTile, BrowserConfig>>))
    /\ Goto("manifest")
    /\ UNCHANGED <<args, cairosvg, input, status, dirs, is_svg_input,
                   favicon_sizes, idx, ico, manifest, stdout, geom>>

WriteManifest ==
    /\ pc = "manifest"
    /\ IF ~args.no_manifest
       THEN /\ manifest' = manifest_icons(~args.no_maskable)
            /\ Write(<<WebManifest>>)
       ELSE UNCHANGED <<manifest, written>>
    /\ Goto("html")
    /\ UNCHANGED <<args, cairosvg, input, status, dirs, is_svg_input,
                   favicon_sizes, idx, ico, stdout, geom>>

PrintHtml ==
    /\ pc = "html"
    /\ stdout' = HtmlLines(args, is_svg_input, favicon_sizes)
    /\ status' = "exit0"
    /\ Goto("done")
    /\ UNCHANGED <<args, cairosvg, input, dirs, written, is_svg_input,
                   favicon_sizes, idx, ico, manifest, geom>>

Next ==
    \/ EnsureOutdir
    \/ LoadSourceImage
    \/ CopySvg
    \/ ParseSizes
    \/ SaveFaviconPng
    \/ SaveAppleTouch
    \/ SavePwaIcons
    \/ SaveMaskable
    \/ SaveIco
    \/ CopyPinnedSvg
    \/ MakeBrowserconfig
    \/ WriteManifest
    \/ PrintHtml

Spec == Init /\ [][Next]_vars


\* --------------------------------------------------------------- geometry
\* Python evaluates round(x) on a float.  On the exact value round() is
\* round-half-to-even ("even"); when the exact value is a half, the float
\* product may have landed just below or just above it ("down", "up"),
\* e.g. 7 * (29 / 14) rounds to 15 although 14.5 rounds half-even to 14.
Ties == {"even", "down", "up"}

\* int(round(num / den)) for num >= 0, den > 0
Round(num, den, tie) ==
    LET q == num \div den
        r == num % den
    IN  IF 2 * r < den THEN q
        ELSE IF 2 * r > den THEN q + 1
        ELSE IF tie = "down" THEN q
        ELSE IF tie = "up" THEN q + 1
        ELSE IF q % 2 = 0 THEN q ELSE q + 1

\* contain with max() for min(): the copy covers the box
contain_cover(img, box, tie) ==
    LET w == img[1]
        h == img[2]
        bw == box[1]
        bh == box[2]
        sn == IF bw * h >= bh * w THEN bw ELSE bh
        sd == IF bw * h >= bh * w THEN w ELSE h
        nw == Round(w * sn, sd, tie)
        nh == Round(h * sn, sd, tie)
    IN  <<IF nw > 1 THEN nw ELSE 1, IF nh > 1 THEN nh ELSE 1>>

\* contain(img, box): the size of the resized copy.  scale is the fraction
\* sn / sd = min(bw / w, bh / h).
contain(img, box, tie) ==
    LET w == img[1]
        h == img[2]
        bw == box[1]
        bh == box[2]
        sn == IF bw * h <= bh * w THEN bw ELSE bh
        sd == IF bw * h <= bh * w THEN w ELSE h
        nw == Round(w * sn, sd, tie)
        nh == Round(h * sn, sd, tie)
    IN  <<IF nw > 1 THEN nw ELSE 1, IF nh > 1 THEN nh ELSE 1>>

\* center(inner, outer)
center(inner, outer) ==
    <<(outer[1] - inner[1]) \div 2, (outer[2] - inner[2]) \div 2>>

\* save_apple_touch: the canvas, the contained icon and where it is pasted
save_apple_touch(img, tie) ==
    LET size == <<180, 180>>
        icon == contain(img, size, tie)
    IN  [canvas |-> size, icon |-> icon, at |-> center(icon, size)]

\* the clamp without its upper end
clamp_pad_no_upper(pad) == IF pad > 0 THEN pad ELSE 0

\* pad = max(0.0, min(0.3, pad)), with pad in hundredths
clamp_pad(pad) ==
    LET low == IF pad < 30 THEN pad ELSE 30
    IN  IF low > 0 THEN low ELSE 0

\* save_maskable, with pad in hundredths: the canvas, the side of the inner
\* box, the contained icon and where it is pasted
save_maskable(img, size, pad, tie1, tie2) ==
    LET p == clamp_pad(pad)
        inner == Round(size * (100 - 2 * p), 100, tie1)
        icon == contain(img, <<inner, inner>>, tie2)
    IN  [canvas |-> <<size, size>>, pad |-> p, inner |-> inner,
         icon |-> icon, at |-> center(icon, <<size, size>>)]

\* Source bitmaps, target boxes, canvas sides and paddings (in hundredths;
\* 12 is the default of --maskable-padding) the helpers are applied to.
Images == (1..MaxDim) \X (1..MaxDim)

Boxes == (1..MaxBox) \X (1..MaxBox)

MaskableSizes == (1..MaxBox) \cup {512}

PadChoices == {-100, -1, 0, 5, 12, 25, 29, 30, 31, 50, 100}

GeomInit ==
    /\ args = None
    /\ cairosvg = TRUE
    /\ input = <<>>
    /\ pc = "geometry"
    /\ status = "running"
    /\ dirs = {}
    /\ written = <<>>
    /\ is_svg_input = FALSE
    /\ favicon_sizes = <<>>
    /\ idx = 1
    /\ ico = None
    /\ manifest = None
    /\ stdout = <<>>
    /\ \E img \in Images : geom = [op |-> "loaded", img |-> img]

\* contain the bitmap in a box and center it on a canvas of the box's size
ContainCenter ==
    /\ pc = "geometry" /\ geom.op = "loaded"
    /\ \E box \in Boxes, tie \in Ties :
          LET icon == contain(geom.img, box, tie)
          IN  geom' = [op |-> "contain", img |-> geom.img, box |-> box,
                       canvas |-> box, icon |-> icon, at |-> center(icon, box)]
    /\ UNCHANGED mainvars

GeomSaveAppleTouch ==
    /\ pc = "geometry" /\ geom.op = "loaded"
    /\ \E tie \in Ties :
          LET r == save_apple_touch(geom.img, tie)
          IN  geom' = [op |-> "contain", img |-> geom.img, box |-> r.canvas,
                       canvas |-> r.canvas, icon |-> r.icon, at |-> r.at]
    /\ UNCHANGED mainvars

GeomSaveMaskable ==
    /\ pc = "geometry" /\ geom.op = "loaded"
    /\ \E size \in MaskableSizes, pad \in PadChoices, tie1 \in Ties, tie2 \in Ties :
          LET r == save_maskable(geom.img, size, pad, tie1, tie2)
          IN  geom' = [op |-> "maskable", img |-> geom.img, size |-> size,
                       given |-> pad, pad |-> r.pad, inner |-> r.inner,
                       canvas |-> r.canvas, icon |-> r.icon, at |-> r.at]
    /\ UNCHANGED mainvars

GeomNext == ContainCenter \/ GeomSaveAppleTouch \/ GeomSaveMaskable

GeomSpec == GeomInit /\ [][GeomNext]_vars


\* ================================================================ claims
\* What the command line asked for, read from how it was put together.
RequestedVals == {input[i].val : i \in {j \in 1..Len(input) : input[j].kind = "int"}}

ValidInput ==
    /\ \A i \in 1..Len(input) : input[i].kind \in {"int", "blank"}
    /\ RequestedVals # {}
    /\ \A n \in RequestedVals : n > 0

AllVals == {f.val : f \in FieldChoices}

Files == Range(written)

FaviconNames == [n \in AllVals |-> FaviconPng(n)]

IsFaviconPng(f) == \E n \in AllVals : f = FaviconNames[n]

SizeOf(f) == CHOOSE n \in AllVals : f = FaviconNames[n]

FaviconWrites == SelectSeq(written, IsFaviconPng)

LoopDone ==
    pc \in {"apple_touch", "pwa", "maskable", "ico", "pinned", "browserconfig",
            "manifest", "html", "done"}

IcoSet == {16, 24, 32, 48, 64}

\* --- C1: once the HTML fragment is printed, a file is referenced by the
\* fragment if and only if it was written in the run (for the files that
\* have a reference: favicon.svg, favicon-NxN.png, apple-touch-icon, the
\* pinned tab SVG, the manifest, browserconfig.xml, favicon.ico), and each
\* reference carries the rel / meta name that belongs to its file.
RelOf(f) ==
    CASE f = FaviconSvg -> "icon svg"
      [] f = AppleTouch -> "apple-touch-icon"
      [] f = PinnedTab -> "mask-icon"
      [] f = WebManifest -> "manifest"
      [] f = BrowserConfig -> "msapplication-config"
      [] f = FaviconIco -> "alternate icon"
      [] OTHER -> "icon png"

C1_HtmlMirrorsFiles ==
    pc = "done" =>
        LET refs == {l \in Range(stdout) : l.href # ""}
            referable == Files \ {Icon192, Icon256, Icon512, IconMaskable, MsTile}
        IN  /\ {l.href : l \in refs} = referable
            /\ \A l \in refs : l.rel = RelOf(l.href)
            /\ args.no_ico <=> FaviconIco \notin Files
            /\ args.no_manifest <=> WebManifest \notin Files
            /\ args.no_apple_touch <=> AppleTouch \notin Files

C1_Witness ==
    /\ pc = "done"
    /\ args.no_ico /\ args.no_manifest /\ ~args.no_apple_touch
    /\ is_svg_input
    /\ Len(favicon_sizes) >= 2

\* --- C2: a completed run has written exactly the files its flags and its
\* source kind call for, plus one favicon-NxN.png per requested size, each
\* once.
ExpectedFixedFiles ==
    {Icon192, Icon256, Icon512}
    \cup (IF args.source = "svg" THEN {FaviconSvg} ELSE {})
    \cup (IF args.no_apple_touch THEN {} ELSE {AppleTouch})
    \cup (IF args.no_maskable THEN {} ELSE {IconMaskable})
    \cup (IF args.no_ico THEN {} ELSE {FaviconIco})
    \cup (IF args.pinned_svg THEN {PinnedTab} ELSE {})
    \cup (IF args.make_browserconfig THEN {MsTile, BrowserConfig} ELSE {})
    \cup (IF args.no_manifest THEN {} ELSE {WebManifest})

C2_FilesDeterminedByFlags ==
    pc = "done" =>
        /\ ValidInput
        /\ {f \in Files : ~IsFaviconPng(f)} = ExpectedFixedFiles
        /\ {f \in Files : IsFaviconPng(f)} = {FaviconNames[n] : n \in RequestedVals}
        /\ Len(written) = Cardinality(Files)

C2_Witness ==
    /\ pc = "done"
    /\ args.source = "raster"
    /\ ~args.no_ico /\ ~args.no_apple_touch /\ ~args.no_maskable
    /\ ~args.no_manifest /\ ~args.pinned_svg /\ ~args.make_browserconfig
    /\ FaviconSvg \notin Files /\ BrowserConfig \notin Files

\* --- C3: for a valid size list the favicon-NxN.png files are written in
\* strictly ascending order of N (hence each once), and when the loop has
\* finished their sizes are exactly the requested integers.
C3_FaviconFilesMatchSizes ==
    ValidInput =>
        /\ \A i, j \in 1..Len(FaviconWrites) :
              i < j => SizeOf(FaviconWrites[i]) < SizeOf(FaviconWrites[j])
        /\ LoopDone =>
              {SizeOf(FaviconWrites[i]) : i \in 1..Len(FaviconWrites)} = RequestedVals

C3_Witness ==
    /\ pc = "done"
    /\ Len(input) = 3
    /\ input[1].kind = "int" /\ input[2].kind = "int" /\ input[3].kind = "int"
    /\ input[1].val > input[2].val
    /\ input[2].val = input[3].val
    /\ Len(FaviconWrites) = 2

\* --- C4: parse_sizes either ends the program or returns a non-empty,
\* strictly ascending list of strictly positive integers.
C4_ParsedSizesPositive ==
    (pc \notin {"ensure_outdir", "load", "copy_svg", "parse_sizes"}
     /\ status # "SystemExit") =>
        /\ favicon_sizes # <<>>
        /\ \A i, j \in 1..Len(favicon_sizes) :
              i < j => favicon_sizes[i] < favicon_sizes[j]
        /\ \A i \in 1..Len(favicon_sizes) : favicon_sizes[i] > 0

\* --- C5: when a configuration error ends the run (SystemExit), no file
\* has been written and nothing has been printed.
C5_NoOutputOnConfigError ==
    status = "SystemExit" => written = <<>> /\ stdout = <<>>

\* --- C6, as claimed: whenever favicon.ico is generated, the resolutions
\* bundled into it include at least one of 16, 32, 48.
IcoBundle == {ico.sizes[i][1] : i \in 1..Len(ico.sizes)}

C6_IcoHasCommonSize ==
    ico # None => IcoBundle \cap {16, 32, 48} # {}

\* --- C6, amended: the bundle is never empty and lies inside
\* {16,24,32,48,64}; it includes one of 16, 32, 48 unless the requested
\* sizes that lie in {16,24,32,48,64} are only 24 and/or 64.
C6_IcoCommonSizeUnlessOnly24or64 ==
    ico # None =>
        /\ IcoBundle # {}
        /\ IcoBundle \subseteq IcoSet
        /\ \/ (RequestedVals \cap IcoSet # {} /\ RequestedVals \cap IcoSet \subseteq {24, 64})
           \/ IcoBundle \cap {16, 32, 48} # {}

C6_Witness ==
    /\ ico # None
    /\ RequestedVals \cap IcoSet = {}
    /\ IcoBundle = {16, 32, 48}

\* --- C7: the manifest lists icon-512, icon-256, icon-192 (no purpose) in
\* this order, then the maskable 512 icon with purpose "maskable" iff
\* --no-maskable is absent, and every listed file was written in the run.
C7_ManifestIconList ==
    manifest # None =>
        /\ [i \in 1..Len(manifest) |-> manifest[i].src]
              = <<Icon512, Icon256, Icon192>>
                \o (IF args.no_maskable THEN <<>> ELSE <<IconMaskable>>)
        /\ \A i \in 1..Len(manifest) :
              manifest[i].purpose = (IF i = 4 THEN "maskable" ELSE "")
        /\ \A i \in 1..Len(manifest) : manifest[i].src \in Files

C7_Witness ==
    /\ manifest # None
    /\ Len(manifest) = 4
    /\ manifest[4].purpose = "maskable"
    /\ IconMaskable \in Files

\* --- C8: contain returns a size of at least 1x1 that fits the box and is
\* within one pixel per axis of (w*s, h*s), s = min(bw/w, bh/h); centered on
\* a canvas of the box's size it lies inside the canvas at offsets >= 0.
Abs(x) == IF x < 0 THEN 0 - x ELSE x

C8_ContainFitsBox ==
    geom.op = "contain" =>
        LET w == geom.img[1]
            h == geom.img[2]
            bw == geom.box[1]
            bh == geom.box[2]
            nw == geom.icon[1]
            nh == geom.icon[2]
        IN  /\ 1 <= nw /\ nw <= bw
            /\ 1 <= nh /\ nh <= bh
            /\ \E s \in {<<bw, w>>, <<bh, h>>} :
                  /\ s[1] * w <= bw * s[2] /\ s[1] * h <= bh * s[2]
                  /\ Abs(nw * s[2] - w * s[1]) <= s[2]
                  /\ Abs(nh * s[2] - h * s[1]) <= s[2]
            /\ geom.at[1] >= 0 /\ geom.at[2] >= 0
            /\ geom.at[1] + nw <= geom.canvas[1]
            /\ geom.at[2] + nh <= geom.canvas[2]

C8_Witness ==
    /\ geom.op = "contain"
    /\ geom.img = <<2, 3>> /\ geom.box = <<1, 4>>
    /\ geom.icon = <<1, 1>>
    /\ geom.at = <<0, 1>>

\* --- C9, as claimed: the ICO base image is contain-fit into a square whose
\* side is the largest requested favicon size, and the bundle is the
\* requested sizes in {16,24,32,48,64}, or {16,32,48} if there is none.
ExpectedBundle ==
    IF RequestedVals \cap IcoSet = {} THEN {16, 32, 48} ELSE RequestedVals \cap IcoSet

BundleAsExpected ==
    /\ IcoBundle = ExpectedBundle
    /\ Len(ico.sizes) = Cardinality(ExpectedBundle)
    /\ \A i \in 1..Len(ico.sizes) : ico.sizes[i][1] = ico.sizes[i][2]

C9_IcoBaseIsLargestFavicon ==
    ico # None =>
        /\ \A n \in RequestedVals : n <= ico.box[1]
        /\ ico.box[1] \in RequestedVals /\ ico.box[2] = ico.box[1]
        /\ BundleAsExpected

\* --- C9, amended: the square's side is the largest bundled resolution.
C9_IcoBaseIsLargestBundled ==
    ico # None =>
        /\ \A n \in ExpectedBundle : n <= ico.box[1]
        /\ ico.box[1] \in ExpectedBundle /\ ico.box[2] = ico.box[1]
        /\ BundleAsExpected

C9_Witness ==
    /\ ico # None
    /\ RequestedVals = {16, 24, 256}
    /\ ico.box = <<24, 24>>

\* --- C10: save_maskable uses the padding min(0.3, max(0, p)) for every p;
\* the inner side lies between round(0.4 * size) and size, and the icon is
\* pasted inside the size x size canvas.
C10_MaskablePaddingClamped ==
    geom.op = "maskable" =>
        LET p == geom.given
            hi == IF p > 0 THEN p ELSE 0
            eff == IF hi < 30 THEN hi ELSE 30
        IN  /\ geom.pad = eff
            /\ \E tie \in Ties : geom.inner = Round(geom.size * (100 - 2 * eff), 100, tie)
            /\ (4 * geom.size + 5) \div 10 <= geom.inner
            /\ geom.inner <= geom.size
            /\ geom.canvas = <<geom.size, geom.size>>
            /\ geom.at[1] >= 0 /\ geom.at[2] >= 0
            /\ geom.at[1] + geom.icon[1] <= geom.size
            /\ geom.at[2] + geom.icon[2] <= geom.size

C10_Witness ==
    /\ geom.op = "maskable"
    /\ geom.given = 50 /\ geom.size = 512
    /\ geom.pad = 30 /\ geom.inner = 205

=============================================================================
